---- MODULE Spec2Model ----
(***************************************************************************)
(* Route planning and stop sequencing of the waste-management backend:     *)
(* the Route / RouteStop rows (routes/models.py), the handlers that write  *)
(* them (routes/views.py, routes/serializers.py, routes/signals.py) and    *)
(* the collection record and collector counters they write.                *)
(*                                                                         *)
(* Each handler is one atomic action over the stored rows; route creation  *)
(* is split into its validation step and its write step, because the       *)
(* uniqueness validator reads the table before the INSERT is issued.       *)
(* Handlers are modelled by their control flow and their writes.  The clock *)
(* call timezone.now() is read as the clock read every other app's views    *)
(* make (django.utils.timezone), although routes/views.py binds the name    *)
(* to datetime.timezone; a set timestamp is modelled as TRUE.               *)
(* RouteStop.ondemand_request / scheduled_request are NULL for every stop  *)
(* a handler writes (no serializer field list names them), so a stop is    *)
(* counted as completed by its own status.                                 *)
(*                                                                         *)
(* Further specifications over the same rows: SpecStop (stop completion     *)
(* over every stop status), SpecRequest (on-demand and scheduled requests   *)
(* and the GPS rules of their completion) and SpecAuto (clients of a zone   *)
(* and routes/services.py auto_generate_stops, which no view calls and      *)
(* which is therefore a step of its own).                                   *)
(* SpecClose (auto_close with room for two credits), SpecConcurrent        *)
(* (complete_stop statement by statement, two requests interleaved) and    *)
(* SpecSync (collection records and their sync onto the linked stop).      *)
(***************************************************************************)
EXTENDS Integers, Sequences, FiniteSets, TLC

\* ---- bounds of the model ----
MaxRoutes == 2
MaxStops == 3
MaxRecords == 2
MaxBalance == 1
MaxDate == 2

\* ---- small input sets ----
Procs == {1, 2}
Collectors == {1}
Dates == 1..MaxDate
Orders == 1..MaxStops
\* stop coordinates: points on one road, in km from its start; the caller
\* of createRoute places the stop it numbers o at 2 * (o - 1) km
StopLoc(o) == 2 * (o - 1)

\* ---- program constants ----
ROUTE_STATUS == {"draft", "assigned", "in_progress", "completed", "cancelled"}
STOP_STATUS == {"pending", "in_progress", "completed", "skipped", "failed"}
RECORD_STATUS == {"pending", "collected", "missed", "rejected", "partial", "skipped", "cancelled"}
status_order == <<"draft", "assigned", "in_progress", "completed">>
average_speed_kmh == 40
base_rate == 10
\* bonus_rate = 0.5 per km, as a divisor
bonus_rate_div == 2
default_expected_minutes == 5

VARIABLES
    routes,     \* Route rows, route_id = index
    stops,      \* RouteStop rows, stop_id = index
    records,    \* CollectionRecord rows, collection_id = index
    collector,  \* the Collector row: total_collections, incentive_balance, last_known position
    pc,         \* per request worker: position inside createRoute
    req,        \* per request worker: the validated data it carries
    last,       \* HTTP status of the response sent last
    ondemand,   \* OnDemandRequest rows, request_id = index
    scheduled,  \* ScheduledRequest rows, id = index
    clients     \* Client rows (service points): location, property_type

vars == <<routes, stops, records, collector, pc, req, last, ondemand, scheduled, clients>>

\* ---- helpers ----
RouteIds == DOMAIN routes
StopIds == DOMAIN stops
RecordIds == DOMAIN records

\* route.stops of a table S
StopsOf(S, r) == {i \in DOMAIN S : S[i].route = r}

RECURSIVE SumOver(_, _)
SumOver(f, D) ==
    IF D = {} THEN 0
    ELSE LET x == CHOOSE y \in D : TRUE IN f[x] + SumOver(f, D \ {x})

Abs(x) == IF x < 0 THEN 0 - x ELSE x

\* last_known_latitude / last_known_longitude are NULL
NoPosition == 0 - 1

\* stops of r ordered by 'order'
RECURSIVE OrderedStops(_, _)
OrderedStops(S, D) ==
    IF D = {} THEN <<>>
    ELSE LET m == CHOOSE i \in D : \A j \in D : S[i].order <= S[j].order
         IN <<m>> \o OrderedStops(S, D \ {m})

\* HTTP status of a response; an uncaught IntegrityError is answered 500
HTTP_200_OK == 200
HTTP_201_CREATED == 201
HTTP_400_BAD_REQUEST == 400
HTTP_500_SERVER_ERROR == 500

\* ---- Route model methods (routes/models.py) ----

\* variant: the recompute adds onto the stored distance and duration
update_distance_and_duration_Accumulate(rt, r, S) ==
    LET seq == OrderedStops(S, StopsOf(S, r))
        n == Len(seq)
        leg == [i \in 1..(n - 1) |-> Abs(S[seq[i]].loc - S[seq[i + 1]].loc)]
        total_distance == rt.total_distance_km + SumOver(leg, DOMAIN leg)
        mins == [i \in 1..n |-> S[seq[i]].expected_minutes]
        total_stop_time == SumOver(mins, DOMAIN mins)
        travel_time_minutes == (total_distance * 60) \div average_speed_kmh
    IN IF n < 2
       THEN [rt EXCEPT !.total_distance_km = 0, !.estimated_duration = 0]
       ELSE [rt EXCEPT !.total_distance_km = total_distance,
                       !.estimated_duration = rt.estimated_duration + travel_time_minutes + total_stop_time]

\* variant: the duration is the travel time alone
update_distance_and_duration_TravelOnly(rt, r, S) ==
    LET seq == OrderedStops(S, StopsOf(S, r))
        n == Len(seq)
        leg == [i \in 1..(n - 1) |-> Abs(S[seq[i]].loc - S[seq[i + 1]].loc)]
        total_distance == SumOver(leg, DOMAIN leg)
        travel_time_minutes == (total_distance * 60) \div average_speed_kmh
    IN IF n < 2
       THEN [rt EXCEPT !.total_distance_km = 0, !.estimated_duration = 0]
       ELSE [rt EXCEPT !.total_distance_km = total_distance,
                       !.estimated_duration = travel_time_minutes]

\* Route.update_distance_and_duration
update_distance_and_duration(rt, r, S) ==
    LET seq == OrderedStops(S, StopsOf(S, r))
        n == Len(seq)
        leg == [i \in 1..(n - 1) |-> Abs(S[seq[i]].loc - S[seq[i + 1]].loc)]
        total_distance == SumOver(leg, DOMAIN leg)
        mins == [i \in 1..n |-> S[seq[i]].expected_minutes]
        total_stop_time == SumOver(mins, DOMAIN mins)
        travel_time_minutes == (total_distance * 60) \div average_speed_kmh
    IN IF n < 2
       THEN [rt EXCEPT !.total_distance_km = 0, !.estimated_duration = 0]
       ELSE [rt EXCEPT !.total_distance_km = total_distance,
                       !.estimated_duration = travel_time_minutes + total_stop_time]

\* the counting loop of Route.update_completion_status; both request links
\* of a stop are NULL, so the loop falls through to the stop's own status
completed_stops(S, r) == Cardinality({i \in StopsOf(S, r) : S[i].status = "completed"})

\* int((completed_stops / stops_total) * 100)
completion_percent_of(done, total) == (done * 100) \div total

\* variant: a completed route is preserved like a cancelled one
update_completion_status_KeepCompleted(rt, r, S) ==
    LET stops_total == Cardinality(StopsOf(S, r))
        done == completed_stops(S, r)
        pct == completion_percent_of(done, stops_total)
    IN IF stops_total = 0
       THEN [rt EXCEPT !.completion_percent = 0]
       ELSE IF rt.status \in {"cancelled", "completed"}
       THEN [rt EXCEPT !.completion_percent = pct]
       ELSE IF pct = 100
       THEN [rt EXCEPT !.completion_percent = pct, !.status = "completed"]
       ELSE IF done > 0
       THEN [rt EXCEPT !.completion_percent = pct, !.status = "in_progress"]
       ELSE IF rt.status = "draft"
       THEN [rt EXCEPT !.completion_percent = pct]
       ELSE [rt EXCEPT !.completion_percent = pct, !.status = "assigned"]

\* Route.update_completion_status
update_completion_status(rt, r, S) ==
    LET stops_total == Cardinality(StopsOf(S, r))
        done == completed_stops(S, r)
        pct == completion_percent_of(done, stops_total)
    IN IF stops_total = 0
       THEN [rt EXCEPT !.completion_percent = 0]
       ELSE IF rt.status = "cancelled"
       THEN [rt EXCEPT !.completion_percent = pct]
       ELSE IF pct = 100
       THEN [rt EXCEPT !.completion_percent = pct, !.status = "completed"]
       ELSE IF done > 0
       THEN [rt EXCEPT !.completion_percent = pct, !.status = "in_progress"]
       ELSE IF rt.status = "draft"
       THEN [rt EXCEPT !.completion_percent = pct]
       ELSE [rt EXCEPT !.completion_percent = pct, !.status = "assigned"]

\* Route.save: write the row, recompute, write the derived fields
RouteSave(rt, r, S) ==
    update_completion_status(update_distance_and_duration(rt, r, S), r, S)

\* post_save receiver of RouteStop (routes/signals.py)
update_route_on_stop_change(rt, r, S) ==
    RouteSave(update_distance_and_duration(update_completion_status(rt, r, S), r, S), r, S)

\* the unique-together validator the serializer derives from Route.Meta
RouteKeyTaken(R, c, d) == \E r \in DOMAIN R : R[r].collector = c /\ R[r].route_date = d

\* variant: the table has no constraint, only the serializer's validator guards the key
unique_route_per_collector_per_day_Absent(R, c, d) == TRUE

\* UniqueConstraint unique_route_per_collector_per_day, checked by the INSERT
unique_route_per_collector_per_day(R, c, d) ==
    ~ \E r \in DOMAIN R : R[r].collector = c /\ R[r].route_date = d

\* variant: the constraint covers 'order' of other routes only
unique_stop_order_per_route_OtherRoute(S, r, o, self) ==
    ~ \E i \in DOMAIN S : i # self /\ S[i].route # r /\ S[i].order = o

\* UniqueConstraint unique_stop_order_per_route, for the row 'self' (0: a new row)
unique_stop_order_per_route(S, r, o, self) ==
    ~ \E i \in DOMAIN S : i # self /\ S[i].route = r /\ S[i].order = o

NewRoute(c, d, st) ==
    [collector |-> c, route_date |-> d, status |-> st, completion_percent |-> 0,
     actual_start |-> FALSE, actual_end |-> FALSE,
     total_distance_km |-> 0, estimated_duration |-> 0]

NewStop(r, o, st, loc) ==
    [route |-> r, order |-> o, status |-> st, loc |-> loc, client |-> 0,
     expected_minutes |-> default_expected_minutes,
     actual_start |-> FALSE, actual_end |-> FALSE]

\* ---- initial state: empty tables, idle workers ----
Init ==
    /\ routes = <<>>
    /\ stops = <<>>
    /\ records = <<>>
    /\ collector = [total_collections |-> 0, incentive_balance |-> 0, last_known |-> NoPosition]
    /\ pc = [p \in Procs |-> "idle"]
    /\ req = [p \in Procs |-> <<>>]
    /\ last = HTTP_200_OK
    /\ ondemand = <<>>
    /\ scheduled = <<>>
    /\ clients = <<>>

\* ---- createRoute (RouteViewSet.create, RouteCreateSerializer) ----

\* serializer.is_valid: field choices and the unique-together validator
CreateValidate(p, c, d, st) ==
    /\ pc[p] = "idle"
    /\ Len(routes) + Cardinality({q \in Procs : pc[q] = "validated"}) < MaxRoutes
    /\ IF RouteKeyTaken(routes, c, d)
       THEN /\ last' = HTTP_400_BAD_REQUEST
            /\ UNCHANGED <<pc, req>>
       ELSE /\ pc' = [pc EXCEPT ![p] = "validated"]
            /\ req' = [req EXCEPT ![p] = <<c, d, st>>]
            /\ UNCHANGED last
    /\ UNCHANGED <<routes, stops, records, collector, ondemand, scheduled, clients>>

\* the loop 'for stop_data in stops_data: RouteStop.objects.create(...)':
\* each INSERT is checked against the (route, order) constraint and, when it
\* succeeds, fires the post_save receiver on the in-memory route
RECURSIVE InsertStops(_, _, _, _)
InsertStops(rt, r, S, data) ==
    IF data = <<>> THEN [route |-> rt, stops |-> S, ok |-> TRUE]
    ELSE LET sd == Head(data) IN
         IF ~ unique_stop_order_per_route(S, r, sd.order, 0)
         THEN [route |-> rt, stops |-> S, ok |-> FALSE]
         ELSE LET S1 == Append(S, NewStop(r, sd.order, sd.status, sd.loc))
              IN InsertStops(update_route_on_stop_change(rt, r, S1), r, S1, Tail(data))

StopData == {[order |-> o, status |-> "pending", loc |-> StopLoc(o)] : o \in Orders}

StopDataLists(n) == UNION {[1..k -> StopData] : k \in 0..n}

\* serializer.save(): RouteCreateSerializer.create
CreateSave(p, data) ==
    /\ pc[p] = "validated"
    /\ pc' = [pc EXCEPT ![p] = "idle"]
    /\ req' = [req EXCEPT ![p] = <<>>]
    /\ IF ~ unique_route_per_collector_per_day(routes, req[p][1], req[p][2])
       THEN /\ last' = HTTP_500_SERVER_ERROR
            /\ UNCHANGED <<routes, stops>>
       ELSE LET r == Len(routes) + 1
                rt0 == RouteSave(NewRoute(req[p][1], req[p][2], req[p][3]), r, stops)
                res == InsertStops(rt0, r, stops, data)
            IN /\ routes' = Append(routes, res.route)
               /\ stops' = res.stops
               /\ last' = (IF res.ok THEN HTTP_201_CREATED ELSE HTTP_500_SERVER_ERROR)
    /\ UNCHANGED <<records, collector, ondemand, scheduled, clients>>

\* ---- RouteViewSet.update_status with RouteUpdateSerializer.validate_status ----
IndexOf(sq, x) == CHOOSE i \in DOMAIN sq : sq[i] = x
InOrder(x) == \E i \in DOMAIN status_order : status_order[i] = x

validate_status(cur, value) ==
    ~(/\ InOrder(value) /\ InOrder(cur)
      /\ IndexOf(status_order, value) < IndexOf(status_order, cur)
      /\ value # "cancelled")

update_status(r, value) ==
    /\ r \in RouteIds
    /\ IF validate_status(routes[r].status, value)
       THEN /\ routes' = [routes EXCEPT ![r] = RouteSave([@ EXCEPT !.status = value], r, stops)]
            /\ last' = HTTP_200_OK
       ELSE /\ last' = HTTP_400_BAD_REQUEST
            /\ UNCHANGED routes
    /\ UNCHANGED <<stops, records, collector, pc, req, ondemand, scheduled, clients>>

\* ---- RouteViewSet.start_route ----
start_route(r) ==
    /\ r \in RouteIds
    /\ IF routes[r].status \notin {"assigned", "draft"}
       THEN /\ last' = HTTP_400_BAD_REQUEST
            /\ UNCHANGED <<routes, stops>>
       ELSE /\ routes' = [routes EXCEPT ![r] =
                    RouteSave([@ EXCEPT !.actual_start = TRUE, !.status = "in_progress"], r, stops)]
            \* route.stops.filter(status="pending").update(status="in_progress")
            /\ stops' = [i \in DOMAIN stops |->
                    IF stops[i].route = r /\ stops[i].status = "pending"
                    THEN [stops[i] EXCEPT !.status = "in_progress"]
                    ELSE stops[i]]
            /\ last' = HTTP_200_OK
    /\ UNCHANGED <<records, collector, pc, req, ondemand, scheduled, clients>>

\* ---- RouteViewSet.auto_close ----
\* variant: only pending stops block the close
HasUnfinished_PendingOnly(S, r) == \E i \in StopsOf(S, r) : S[i].status = "pending"

\* route.stops.filter(status__in=["pending", "in_progress"]).exists()
HasUnfinished(S, r) == \E i \in StopsOf(S, r) : S[i].status \in {"pending", "in_progress"}

incentive_of(rt, r, S) ==
    completed_stops(S, r) * base_rate + rt.total_distance_km \div bonus_rate_div

\* the handler, explored while the balance is below cap
auto_close_upto(r, cap) ==
    /\ r \in RouteIds
    /\ IF HasUnfinished(stops, r)
       THEN /\ last' = HTTP_400_BAD_REQUEST
            /\ UNCHANGED <<routes, collector>>
       ELSE LET rt == RouteSave([routes[r] EXCEPT !.status = "completed", !.actual_end = TRUE], r, stops)
                incentive == incentive_of(rt, r, stops)
            IN /\ collector.incentive_balance < cap
               /\ routes' = [routes EXCEPT ![r] = rt]
               /\ collector' = [collector EXCEPT !.incentive_balance = @ + incentive]
               /\ last' = HTTP_200_OK
    /\ UNCHANGED <<stops, records, pc, req, ondemand, scheduled, clients>>

auto_close(r) == auto_close_upto(r, MaxBalance)

\* ---- RouteStopViewSet.update (ModelViewSet, RouteStopSerializer) ----
stop_update(s, st, o) ==
    /\ s \in StopIds
    /\ LET r == stops[s].route IN
       IF ~ unique_stop_order_per_route(stops, r, o, s)
       THEN /\ last' = HTTP_500_SERVER_ERROR
            /\ UNCHANGED <<routes, stops>>
       ELSE LET S1 == [stops EXCEPT ![s].status = st, ![s].order = o]
            IN /\ stops' = S1
               /\ routes' = [routes EXCEPT ![r] = update_route_on_stop_change(@, r, S1)]
               /\ last' = HTTP_200_OK
    /\ UNCHANGED <<records, collector, pc, req, ondemand, scheduled, clients>>

\* ---- RouteStopViewSet.complete_stop ----
\* variant: the handler does not look at the stop's status
complete_stop_NoGuard(s) ==
    /\ s \in StopIds
    /\ LET r == stops[s].route
           S1 == [stops EXCEPT ![s].status = "completed", ![s].actual_end = TRUE]
           rt1 == update_route_on_stop_change(routes[r], r, S1)
           pct == completion_percent_of(completed_stops(S1, r), Cardinality(StopsOf(S1, r)))
           rt2 == RouteSave([rt1 EXCEPT !.completion_percent = pct], r, S1)
       IN /\ Len(records) < MaxRecords
          /\ stops' = S1
          /\ records' = Append(records, [route_stop |-> 0, route |-> r, status |-> "completed"])
          /\ routes' = [routes EXCEPT ![r] = rt2]
          /\ collector' = [collector EXCEPT !.total_collections = @ + 1]
          /\ last' = HTTP_201_CREATED
    /\ UNCHANGED <<pc, req, ondemand, scheduled, clients>>

complete_stop(s) ==
    /\ s \in StopIds
    /\ IF stops[s].status # "in_progress"
       THEN /\ last' = HTTP_400_BAD_REQUEST
            /\ UNCHANGED <<routes, stops, records, collector>>
       ELSE LET r == stops[s].route
                S1 == [stops EXCEPT ![s].status = "completed", ![s].actual_end = TRUE]
                \* stop.save fires the post_save receiver
                rt1 == update_route_on_stop_change(routes[r], r, S1)
                \* round((completed_stops / total_stops) * 100, 2) stored in an IntegerField
                pct == completion_percent_of(completed_stops(S1, r), Cardinality(StopsOf(S1, r)))
                rt2 == RouteSave([rt1 EXCEPT !.completion_percent = pct], r, S1)
            IN /\ Len(records) < MaxRecords
               /\ stops' = S1
               /\ records' = Append(records, [route_stop |-> 0, route |-> r, status |-> "completed"])
               /\ routes' = [routes EXCEPT ![r] = rt2]
               /\ collector' = [collector EXCEPT !.total_collections = @ + 1]
               /\ last' = HTTP_201_CREATED
    /\ UNCHANGED <<pc, req, ondemand, scheduled, clients>>

\* ---- inputs of the state-machine specification ----
\* one request worker, one service date, stops numbered 1..k in the order sent
CreateStatus == {"draft", "assigned"}
StopUpdateStatus == {"in_progress", "completed", "failed"}
NumberedStops(n) == {[i \in 1..k |-> [order |-> i, status |-> "pending", loc |-> StopLoc(i)]] : k \in 0..n}

Next ==
    \/ \E st \in CreateStatus : CreateValidate(1, 1, 1, st)
    \/ \E data \in NumberedStops(MaxStops - Len(stops)) : CreateSave(1, data)
    \/ \E r \in RouteIds, value \in ROUTE_STATUS : update_status(r, value)
    \/ \E r \in RouteIds : start_route(r)
    \/ \E r \in RouteIds : auto_close(r)
    \/ \E s \in StopIds, st \in StopUpdateStatus : stop_update(s, st, stops[s].order)
    \/ \E s \in StopIds : complete_stop(s)

Spec == Init /\ [][Next]_vars

\* ---- concurrent creation and stop ordering ----
NextCreate ==
    \/ \E p \in Procs, c \in Collectors, d \in Dates, st \in CreateStatus : CreateValidate(p, c, d, st)
    \/ \E p \in Procs : \E data \in StopDataLists(MaxStops - Len(stops)) : CreateSave(p, data)
    \/ \E s \in StopIds, o \in Orders : stop_update(s, stops[s].status, o)

SpecCreate == Init /\ [][NextCreate]_vars

\* ---- stop completion: one assigned route, every stop status ----
NextStop ==
    \/ CreateValidate(1, 1, 1, "assigned")
    \/ \E data \in NumberedStops(MaxStops - Len(stops)) : CreateSave(1, data)
    \/ \E r \in RouteIds : start_route(r)
    \/ \E s \in StopIds, st \in STOP_STATUS : stop_update(s, st, stops[s].order)
    \/ \E s \in StopIds : complete_stop(s)

SpecStop == Init /\ [][NextStop]_vars

\* ---- on-demand and scheduled requests (on_demand/, scheduled_request/) ----
\* Positions are metres along one road; geodesic(a, b) is the distance between
\* two of them.  A request body carries the proof image and the reason its
\* handler asks for.
MaxRequests == 1
RequestLocs == {0}
Positions == {50, 100, 101, 250, 300, 301}
ONDEMAND_STATUS == {"pending", "confirmed", "assigned", "in_progress", "completed", "cancelled", "rejected"}
SCHEDULED_STATUS == {"pending", "assigned", "in_progress", "completed", "cancelled"}
suspect_distance_m == 100
reject_distance_m == 300

geodesic(a, b) == Abs(a - b)

\* a new request row: no collector, default status
NewRequest(loc) ==
    [request_status |-> "pending", collector |-> 0, completed_at |-> FALSE, location |-> loc]

\* OnDemandRequestViewSet.create / ScheduledRequestViewSet.create
od_create(loc) ==
    /\ Len(ondemand) + Len(scheduled) < MaxRequests
    /\ ondemand' = Append(ondemand, NewRequest(loc))
    /\ last' = HTTP_201_CREATED
    /\ UNCHANGED <<routes, stops, records, collector, pc, req, scheduled, clients>>

sr_create(loc) ==
    /\ Len(ondemand) + Len(scheduled) < MaxRequests
    /\ scheduled' = Append(scheduled, NewRequest(loc))
    /\ last' = HTTP_201_CREATED
    /\ UNCHANGED <<routes, stops, records, collector, pc, req, ondemand, clients>>

\* OnDemandRequestViewSet.assign: no look at the current status
od_assign(q) ==
    /\ q \in DOMAIN ondemand
    /\ ondemand' = [ondemand EXCEPT ![q].collector = 1, ![q].request_status = "assigned"]
    /\ last' = HTTP_200_OK
    /\ UNCHANGED <<routes, stops, records, collector, pc, req, scheduled, clients>>

\* OnDemandRequestUpdateSerializer.validate: "invalid" for a ValidationError,
\* else data['request_status'] as it leaves the method ("absent": the body
\* names no status)
od_validate(instance, value, col) ==
    LET new_status == IF value = "absent" THEN instance.request_status ELSE value
        distance_m == geodesic(instance.location, col.last_known)
    IN IF instance.request_status = "completed" /\ new_status # "completed" THEN "invalid"
       ELSE IF new_status = "assigned" /\ instance.collector = 0 THEN "invalid"
       ELSE IF new_status = "in_progress" /\ instance.collector = 0 THEN "invalid"
       ELSE IF new_status # "completed" THEN value
       ELSE IF instance.collector = 0 THEN "invalid"
       ELSE IF instance.request_status # "in_progress" THEN "invalid"
       ELSE IF col.last_known = NoPosition THEN "invalid"
       ELSE IF distance_m > reject_distance_m THEN "invalid"
       ELSE IF distance_m > suspect_distance_m THEN "suspected"
       ELSE value

\* OnDemandRequestViewSet.partial_update with a request_status
od_partial_update(q, value) ==
    /\ q \in DOMAIN ondemand
    /\ LET data == od_validate(ondemand[q], value, collector) IN
       IF data = "invalid"
       THEN /\ last' = HTTP_400_BAD_REQUEST
            /\ UNCHANGED ondemand
       ELSE /\ ondemand' = [ondemand EXCEPT ![q].request_status = data]
            /\ last' = HTTP_200_OK
    /\ UNCHANGED <<routes, stops, records, collector, pc, req, scheduled, clients>>

\* OnDemandRequestViewSet.complete
od_complete(q, pos, value) ==
    /\ q \in DOMAIN ondemand
    /\ IF ondemand[q].collector = 0
       THEN \* collector is None: the attribute assignment raises
            /\ last' = HTTP_500_SERVER_ERROR
            /\ UNCHANGED <<ondemand, collector>>
       ELSE LET col == [collector EXCEPT !.last_known = pos]
                data == od_validate(ondemand[q], value, col)
            IN /\ collector' = col
               /\ IF data = "invalid"
                  THEN /\ last' = HTTP_400_BAD_REQUEST
                       /\ UNCHANGED ondemand
                  ELSE /\ ondemand' = [ondemand EXCEPT ![q].request_status = "completed",
                                                        ![q].completed_at = TRUE]
                       /\ last' = HTTP_200_OK
    /\ UNCHANGED <<routes, stops, records, pc, req, scheduled, clients>>

\* OnDemandRequestViewSet.cancel
od_cancel(q) ==
    /\ q \in DOMAIN ondemand
    /\ ondemand' = [ondemand EXCEPT ![q].request_status = "cancelled"]
    /\ last' = HTTP_200_OK
    /\ UNCHANGED <<routes, stops, records, collector, pc, req, scheduled, clients>>

\* ScheduledRequestViewSet.assign
sr_assign(q) ==
    /\ q \in DOMAIN scheduled
    /\ scheduled' = [scheduled EXCEPT ![q].collector = 1, ![q].request_status = "assigned"]
    /\ last' = HTTP_200_OK
    /\ UNCHANGED <<routes, stops, records, collector, pc, req, ondemand, clients>>

\* ScheduledRequestViewSet.start
sr_start(q) ==
    /\ q \in DOMAIN scheduled
    /\ scheduled' = [scheduled EXCEPT ![q].request_status = "in_progress"]
    /\ last' = HTTP_200_OK
    /\ UNCHANGED <<routes, stops, records, collector, pc, req, ondemand, clients>>

\* ScheduledRequestViewSet.complete; the body names no request_status
sr_complete(q, pos) ==
    /\ q \in DOMAIN scheduled
    /\ IF scheduled[q].collector = 0
       THEN /\ last' = HTTP_400_BAD_REQUEST
            /\ UNCHANGED <<scheduled, collector>>
       ELSE LET distance_m == geodesic(scheduled[q].location, pos) IN
            /\ collector' = [collector EXCEPT !.last_known = pos]
            /\ IF distance_m > reject_distance_m
               THEN /\ last' = HTTP_400_BAD_REQUEST
                    /\ UNCHANGED scheduled
               ELSE IF distance_m > suspect_distance_m
               THEN \* request.data["request_status"] = "suspected" is not one of
                    \* REQUEST_STATUS_CHOICES: is_valid raises
                    /\ "suspected" \notin SCHEDULED_STATUS
                    /\ last' = HTTP_400_BAD_REQUEST
                    /\ UNCHANGED scheduled
               ELSE \* ScheduledRequestUpdateSerializer.update moves the request
                    \* to the latitude / longitude of the body
                    /\ scheduled' = [scheduled EXCEPT ![q].request_status = "completed",
                                                      ![q].completed_at = TRUE,
                                                      ![q].location = pos]
                    /\ last' = HTTP_200_OK
    /\ UNCHANGED <<routes, stops, records, pc, req, ondemand, clients>>

\* ScheduledRequestViewSet.cancel
sr_cancel(q) ==
    /\ q \in DOMAIN scheduled
    /\ scheduled' = [scheduled EXCEPT ![q].request_status = "cancelled"]
    /\ last' = HTTP_200_OK
    /\ UNCHANGED <<routes, stops, records, collector, pc, req, ondemand, clients>>

OdPatchStatus == {"in_progress", "completed"}
OdCompleteBody == {"absent", "completed"}

NextRequest ==
    \/ \E loc \in RequestLocs : od_create(loc)
    \/ \E loc \in RequestLocs : sr_create(loc)
    \/ \E q \in DOMAIN ondemand : od_assign(q)
    \/ \E q \in DOMAIN ondemand, value \in OdPatchStatus : od_partial_update(q, value)
    \/ \E q \in DOMAIN ondemand, pos \in Positions, value \in OdCompleteBody : od_complete(q, pos, value)
    \/ \E q \in DOMAIN ondemand : od_cancel(q)
    \/ \E q \in DOMAIN scheduled : sr_assign(q)
    \/ \E q \in DOMAIN scheduled : sr_start(q)
    \/ \E q \in DOMAIN scheduled, pos \in Positions : sr_complete(q, pos)
    \/ \E q \in DOMAIN scheduled : sr_cancel(q)

SpecRequest == Init /\ [][NextRequest]_vars

\* ---- automatic stop generation (routes/services.py) ----
\* The zone of every route is the stretch 0..2 km of the road; its
\* center_point is the centroid Zone.save computes.  Clients live at km 1
\* (the centre), km 2 (the edge) or km 3 (outside the zone).
MaxClients == 3
zone_boundary == 0..2
ClientLocs == 1..3
PROPERTY_TYPE == {"residential", "commercial", "industrial"}

\* Zone.save: self.center_point = self.boundary.centroid
center_point(boundary) ==
    LET lo == CHOOSE x \in boundary : \A y \in boundary : x <= y
        hi == CHOOSE x \in boundary : \A y \in boundary : x >= y
    IN (lo + hi) \div 2

\* registration of a client (service point)
client_create(loc, ptype) ==
    /\ Len(clients) < MaxClients
    /\ clients' = Append(clients, [location |-> loc, property_type |-> ptype])
    /\ last' = HTTP_201_CREATED
    /\ UNCHANGED <<routes, stops, records, collector, pc, req, ondemand, scheduled>>

\* variant: every client is taken, whatever the boundary
clients_within_Everywhere(C, boundary) == DOMAIN C

\* Client.objects.filter(location__within=route.zone.boundary)
clients_within(C, boundary) == {c \in DOMAIN C : C[c].location \in boundary}

\* .annotate(distance=Distance('location', center_point)).order_by('distance'):
\* the row orders one evaluation of the queryset may return (equal distances
\* come in any order)
order_by_distance(C, D, center) ==
    {f \in [1..Cardinality(D) -> D] :
        /\ \A i, j \in DOMAIN f : i # j => f[i] # f[j]
        /\ \A i, j \in DOMAIN f :
            i < j => Abs(C[f[i]].location - center) <= Abs(C[f[j]].location - center)}

\* the row a loop over the queryset visits last (0: the queryset is empty)
last_row(C, D, center) ==
    IF D = {} THEN {0} ELSE {f[Len(f)] : f \in order_by_distance(C, D, center)}

\* the if / elif / else on client.property_type
expected_minutes_of(ptype) ==
    IF ptype = "residential" THEN 5 ELSE IF ptype = "commercial" THEN 10 ELSE 7

\* auto_generate_stops(route): the first loop runs over the queryset and
\* leaves expected_minutes at the value of its last row; the second loop
\* builds one stop per row with that value; bulk_create inserts them in one
\* statement and fires no receiver; the route is recomputed and saved.
auto_generate_stops(r) ==
    /\ r \in RouteIds
    /\ LET D == clients_within(clients, zone_boundary)
           center == center_point(zone_boundary)
       IN \E first \in last_row(clients, D, center),
             second \in order_by_distance(clients, D, center) :
            LET n == Len(second)
                expected_minutes == expected_minutes_of(clients[first].property_type)
                new == [i \in 1..n |->
                          [NewStop(r, i, "pending", clients[second[i]].location)
                              EXCEPT !.client = second[i], !.expected_minutes = expected_minutes]]
                S1 == stops \o new
            IN IF \E i \in 1..n : ~ unique_stop_order_per_route(stops, r, i, 0)
               THEN /\ last' = HTTP_500_SERVER_ERROR
                    /\ UNCHANGED <<routes, stops>>
               ELSE /\ stops' = S1
                    /\ routes' = [routes EXCEPT ![r] =
                            RouteSave(update_completion_status(
                                update_distance_and_duration(@, r, S1), r, S1), r, S1)]
                    /\ UNCHANGED last
    /\ UNCHANGED <<records, collector, pc, req, ondemand, scheduled, clients>>

NextAuto ==
    \/ \E loc \in ClientLocs, ptype \in PROPERTY_TYPE : client_create(loc, ptype)
    \/ CreateValidate(1, 1, 1, "assigned")
    \/ CreateSave(1, <<>>)
    \/ \E r \in RouteIds : auto_generate_stops(r)

SpecAuto == Init /\ [][NextAuto]_vars

\* ---- closing a route more than once ----
MaxCredit == 21

NextClose ==
    \/ \E st \in CreateStatus : CreateValidate(1, 1, 1, st)
    \/ \E r \in RouteIds : start_route(r)
    \/ \E data \in NumberedStops(MaxStops - Len(stops)) : CreateSave(1, data)
    \/ \E s \in StopIds : stop_update(s, "completed", stops[s].order)
    \/ \E s \in StopIds : complete_stop(s)
    \/ \E r \in RouteIds : auto_close_upto(r, MaxCredit)

SpecClose == Init /\ [][NextClose]_vars

\* ---- complete_stop statement by statement (no transaction spans the handler) ----
\* Each step is one statement of RouteStopViewSet.complete_stop as the
\* database sees it; req[p] holds what the worker has in memory: the stop it
\* loaded, the Route object (stop.route) and the Collector object.

\* the four columns Route.save and the receiver write back
WriteDerived(row, mem) ==
    [row EXCEPT !.total_distance_km = mem.total_distance_km,
                !.estimated_duration = mem.estimated_duration,
                !.completion_percent = mem.completion_percent,
                !.status = mem.status]

\* get_object, stop.route, route.collector and the status check
cs_read(p, s) ==
    /\ pc[p] = "idle"
    /\ s \in StopIds
    /\ IF stops[s].status # "in_progress"
       THEN /\ last' = HTTP_400_BAD_REQUEST
            /\ UNCHANGED <<pc, req>>
       ELSE /\ Len(records) + Cardinality({q \in Procs : pc[q] \notin {"idle", "validated"}}) < MaxRecords
            /\ pc' = [pc EXCEPT ![p] = "cs_stop"]
            /\ req' = [req EXCEPT ![p] = [stop |-> s, route |-> routes[stops[s].route],
                                          total_collections |-> collector.total_collections]]
            /\ UNCHANGED last
    /\ UNCHANGED <<routes, stops, records, collector, ondemand, scheduled, clients>>

\* stop.save(update_fields=["status", "actual_end"]): the UPDATE of the stop row
cs_save_stop(p) ==
    /\ pc[p] = "cs_stop"
    /\ stops' = [stops EXCEPT ![req[p].stop].status = "completed", ![req[p].stop].actual_end = TRUE]
    /\ pc' = [pc EXCEPT ![p] = "cs_signal"]
    /\ UNCHANGED <<routes, records, collector, req, last, ondemand, scheduled, clients>>

\* the post_save receiver, run by stop.save after its UPDATE
cs_signal(p) ==
    /\ pc[p] = "cs_signal"
    /\ LET r == stops[req[p].stop].route
           mem == update_route_on_stop_change(req[p].route, r, stops)
       IN /\ routes' = [routes EXCEPT ![r] = WriteDerived(@, mem)]
          /\ req' = [req EXCEPT ![p].route = mem]
    /\ pc' = [pc EXCEPT ![p] = "cs_record"]
    /\ UNCHANGED <<stops, records, collector, last, ondemand, scheduled, clients>>

\* CollectionRecord.objects.create(...)
cs_record(p) ==
    /\ pc[p] = "cs_record"
    /\ records' = Append(records, [route_stop |-> 0, route |-> stops[req[p].stop].route,
                                   status |-> "completed"])
    /\ pc' = [pc EXCEPT ![p] = "cs_percent"]
    /\ UNCHANGED <<routes, stops, collector, req, last, ondemand, scheduled, clients>>

\* route.completion_percent = round(...); route.save(update_fields=["completion_percent"])
cs_percent(p) ==
    /\ pc[p] = "cs_percent"
    /\ LET r == stops[req[p].stop].route
           pct == completion_percent_of(completed_stops(stops, r), Cardinality(StopsOf(stops, r)))
           mem == RouteSave([req[p].route EXCEPT !.completion_percent = pct], r, stops)
       IN /\ routes' = [routes EXCEPT ![r] = WriteDerived(@, mem)]
          /\ req' = [req EXCEPT ![p].route = mem]
    /\ pc' = [pc EXCEPT ![p] = "cs_collector"]
    /\ UNCHANGED <<stops, records, collector, last, ondemand, scheduled, clients>>

\* collector.total_collections = getattr(collector, "total_collections", 0) + 1; save
cs_collector(p) ==
    /\ pc[p] = "cs_collector"
    /\ collector' = [collector EXCEPT !.total_collections = req[p].total_collections + 1]
    /\ pc' = [pc EXCEPT ![p] = "idle"]
    /\ req' = [req EXCEPT ![p] = <<>>]
    /\ last' = HTTP_201_CREATED
    /\ UNCHANGED <<routes, stops, records, ondemand, scheduled, clients>>

NextConcurrent ==
    \/ CreateValidate(1, 1, 1, "assigned")
    \/ \E data \in NumberedStops(MaxStops - Len(stops)) : CreateSave(1, data)
    \/ \E r \in RouteIds : start_route(r)
    \/ \E p \in Procs, s \in StopIds : cs_read(p, s)
    \/ \E p \in Procs : cs_save_stop(p)
    \/ \E p \in Procs : cs_signal(p)
    \/ \E p \in Procs : cs_record(p)
    \/ \E p \in Procs : cs_percent(p)
    \/ \E p \in Procs : cs_collector(p)

SpecConcurrent == Init /\ [][NextConcurrent]_vars

\* ---- collection records and their stop (collection_management/) ----
\* what CollectionRecordCreateSerializer.create and
\* CollectionRecordUpdateSerializer.update assign to the linked stop before
\* route_stop.save(); a status they do not name leaves the stop as it is
sync_route_stop(stop, status) ==
    IF status = "completed" THEN [stop EXCEPT !.status = "completed", !.actual_end = TRUE]
    ELSE IF status = "in_progress" THEN [stop EXCEPT !.status = "in_progress", !.actual_start = TRUE]
    ELSE IF status \in {"skipped", "rejected"} THEN [stop EXCEPT !.status = "skipped"]
    ELSE IF status = "cancelled" THEN [stop EXCEPT !.status = "cancelled"]
    ELSE stop

\* route_stop.save(): the row is written and the post_save receiver runs
SaveStop(s, row) ==
    LET S1 == [stops EXCEPT ![s] = row]
        r == stops[s].route
    IN /\ stops' = S1
       /\ routes' = [routes EXCEPT ![r] = update_route_on_stop_change(@, r, S1)]

\* CollectionRecordViewSet.create for a record linked to stop s
record_create(s, status) ==
    /\ s \in StopIds
    /\ Len(records) < MaxRecords
    /\ IF \E k \in RecordIds : records[k].route_stop = s
       THEN \* route_stop is one-to-one: the field's unique validator rejects
            /\ last' = HTTP_400_BAD_REQUEST
            /\ UNCHANGED <<routes, stops, records>>
       ELSE /\ records' = Append(records, [route_stop |-> s, route |-> stops[s].route, status |-> status])
            /\ SaveStop(s, sync_route_stop(stops[s], status))
            /\ last' = HTTP_201_CREATED
    /\ UNCHANGED <<collector, pc, req, ondemand, scheduled, clients>>

\* CollectionRecordUpdateSerializer.validate_status
record_validate_status(cur, value) ==
    ~ (cur = "completed"
       /\ value \in {"pending", "in_progress", "skipped", "cancelled", "rejected"})

\* CollectionRecordUpdateSerializer.update
record_save(k, new_status) ==
    LET old_status == records[k].status
        s == records[k].route_stop
    IN /\ records' = [records EXCEPT ![k].status = new_status]
       /\ IF old_status # new_status /\ s # 0
          THEN SaveStop(s, sync_route_stop(stops[s], new_status))
          ELSE UNCHANGED <<routes, stops>>

\* CollectionRecordViewSet.partial_update with a status
record_update(k, value) ==
    /\ k \in RecordIds
    /\ IF record_validate_status(records[k].status, value)
       THEN /\ record_save(k, value)
            /\ last' = HTTP_200_OK
       ELSE /\ last' = HTTP_400_BAD_REQUEST
            /\ UNCHANGED <<routes, stops, records>>
    /\ UNCHANGED <<collector, pc, req, ondemand, scheduled, clients>>

\* CollectionRecordViewSet.start_collection
start_collection(k) ==
    /\ k \in RecordIds
    /\ IF records[k].status # "pending"
       THEN /\ last' = HTTP_400_BAD_REQUEST
            /\ UNCHANGED records
       ELSE /\ records' = [records EXCEPT ![k].status = "collected"]
            /\ last' = HTTP_200_OK
    /\ UNCHANGED <<routes, stops, collector, pc, req, ondemand, scheduled, clients>>

\* CollectionRecordViewSet.complete_collection; the body names no status
complete_collection(k) ==
    /\ k \in RecordIds
    /\ record_save(k, "collected")
    /\ last' = HTTP_200_OK
    /\ UNCHANGED <<collector, pc, req, ondemand, scheduled, clients>>

RecordCreateStatus == {"pending", "skipped", "cancelled"}

NextSync ==
    \/ CreateValidate(1, 1, 1, "assigned")
    \/ \E data \in NumberedStops(MaxStops - Len(stops)) : CreateSave(1, data)
    \/ \E r \in RouteIds : start_route(r)
    \/ \E s \in StopIds : complete_stop(s)
    \/ \E s \in StopIds, status \in RecordCreateStatus : record_create(s, status)
    \/ \E k \in RecordIds, value \in RECORD_STATUS : record_update(k, value)
    \/ \E k \in RecordIds : start_collection(k)
    \/ \E k \in RecordIds : complete_collection(k)

SpecSync == Init /\ [][NextSync]_vars

\* ======================= properties =======================

Terminal == {"completed", "cancelled"}
\* round(a / b), half up (no tie occurs below 8 stops)
Round(a, b) == (2 * a + b) \div (2 * b)
NumStops(S, r) == Cardinality({i \in DOMAIN S : S[i].route = r})
NumCompleted(S, r) == Cardinality({i \in DOMAIN S : S[i].route = r /\ S[i].status = "completed"})

\* a stop row of a stored route is saved (updated or completed)
StopSaveStep == (\E s \in StopIds, st \in STOP_STATUS, o \in Orders : stop_update(s, st, o))
                \/ (\E s \in StopIds : complete_stop(s))

\* C1: in every state a route's completion_percent is
\* round(100 * completed stops / stops), and 0 for a route without stops.
C1_PercentIsRounded ==
    \A r \in RouteIds :
        routes[r].completion_percent =
            IF NumStops(stops, r) = 0 THEN 0
            ELSE Round(100 * NumCompleted(stops, r), NumStops(stops, r))

\* C2: once a route is completed or cancelled, no stop save changes its status.
C2_TerminalSurvivesStopSave ==
    [][StopSaveStep =>
        \A r \in RouteIds : routes[r].status \in Terminal => routes'[r].status = routes[r].status]_vars

\* C3: at most one route row per (collector, route_date); a creation whose key
\* is taken when its INSERT runs writes nothing and fails.
C3_OneRoutePerCollectorDay ==
    [][/\ \A r1, r2 \in DOMAIN routes' :
            (routes'[r1].collector = routes'[r2].collector
             /\ routes'[r1].route_date = routes'[r2].route_date) => r1 = r2
       /\ \A p \in Procs :
            (/\ pc[p] = "validated" /\ pc'[p] = "idle"
             /\ \E r \in RouteIds : routes[r].collector = req[p][1] /\ routes[r].route_date = req[p][2])
            => (routes' = routes /\ stops' = stops /\ last' = HTTP_500_SERVER_ERROR)]_vars

\* two creations for one key were in flight together: one row, the other failed
C3_Witness ==
    /\ Len(routes) = 1
    /\ stops = <<>>
    /\ last = HTTP_500_SERVER_ERROR
    /\ \A p \in Procs : pc[p] = "idle"

\* C4: within one route no two stops have the same order.
C4_StopOrderUnique ==
    \A i, j \in StopIds :
        (stops[i].route = stops[j].route /\ stops[i].order = stops[j].order) => i = j

\* a route with two stops, one of which was renumbered after its creation,
\* and a later write to an order already taken was refused
C4_Witness ==
    \E r \in RouteIds :
        /\ NumStops(stops, r) = 2
        /\ \E i \in StopIds : stops[i].route = r /\ stops[i].loc # StopLoc(stops[i].order)
        /\ last = HTTP_500_SERVER_ERROR
        /\ \A p \in Procs : pc[p] = "idle"

\* C5: update_status, start_route and auto_close leave the status of a
\* completed or cancelled route unchanged.
C5_TerminalSurvivesRouteOps ==
    [][((\E r \in RouteIds, v \in ROUTE_STATUS : update_status(r, v))
        \/ (\E r \in RouteIds : start_route(r))
        \/ (\E r \in RouteIds : auto_close(r)))
       => \A r \in RouteIds : routes[r].status \in Terminal => routes'[r].status = routes[r].status]_vars

\* C6: a stop only moves pending -> in_progress -> completed or
\* pending|in_progress -> skipped|failed; a completed, skipped or failed stop
\* never changes status.
LegalStopStep(a, b) ==
    \/ a = b
    \/ a = "pending" /\ b \in {"in_progress", "skipped", "failed"}
    \/ a = "in_progress" /\ b \in {"completed", "skipped", "failed"}

C6_StopTransitionsLegal ==
    [][\A s \in StopIds : LegalStopStep(stops[s].status, stops'[s].status)]_vars

\* C7: after a stop save on a non-cancelled route the route's status is
\* completed at 100 percent, else in_progress with a completed stop, else
\* draft if it was draft, else assigned; completing the stops one by one gives
\* in_progress until the last completion and completed after it.
Derived(pct, done, was) ==
    IF pct = 100 THEN "completed"
    ELSE IF done > 0 THEN "in_progress"
    ELSE IF was = "draft" THEN "draft"
    ELSE "assigned"

C8_StartRouteStarts ==
    [][\A r \in RouteIds :
        (start_route(r) /\ routes[r].status \in {"assigned", "draft"})
        => /\ last' = HTTP_200_OK
           /\ routes'[r].status = "in_progress"
           /\ routes'[r].actual_start
           /\ \A s \in StopIds :
                (stops[s].route = r /\ stops[s].status = "pending") => stops'[s].status = "in_progress"]_vars

\* C9: auto_close on a route with a pending or in_progress stop is rejected
\* and changes no row.
C9_AutoCloseRejectsUnfinished ==
    [][\A r \in RouteIds :
        (/\ auto_close(r)
         /\ \E s \in StopIds : stops[s].route = r /\ stops[s].status \in {"pending", "in_progress"})
        => (last' = HTTP_400_BAD_REQUEST /\ routes' = routes /\ stops' = stops
            /\ records' = records /\ collector' = collector)]_vars

\* a rejected request on a started route that still has an unfinished stop,
\* with nothing closed and nothing credited
C9_Witness ==
    /\ last = HTTP_400_BAD_REQUEST
    /\ collector.incentive_balance = 0
    /\ \E r \in RouteIds :
        /\ routes[r].actual_start
        /\ ~ routes[r].actual_end
        /\ \E s \in StopIds : stops[s].route = r /\ stops[s].status = "in_progress"
        /\ \E s \in StopIds : stops[s].route = r /\ stops[s].status = "completed"

\* C10: auto_close on a route without pending or in_progress stops succeeds
\* and leaves the stored route completed with actual_end set.
C10_AutoCloseCompletes ==
    [][\A r \in RouteIds :
        (/\ auto_close(r)
         /\ ~ \E s \in StopIds : stops[s].route = r /\ stops[s].status \in {"pending", "in_progress"})
        => /\ last' = HTTP_200_OK
           /\ routes'[r].status = "completed"
           /\ routes'[r].actual_end]_vars
\* C11: complete_stop on a stop that is not in_progress is rejected and leaves
\* the stop, the collection records, the route and the collector's counters
\* as they were.
C11_CompleteStopRejected ==
    [][\A s \in StopIds :
        (complete_stop(s) /\ stops[s].status # "in_progress")
        => (last' = HTTP_400_BAD_REQUEST /\ stops' = stops /\ records' = records
            /\ routes' = routes /\ collector' = collector)]_vars

\* a rejected request on a started route holding a skipped, a failed and a
\* completed stop, with no record written
C11_Witness ==
    /\ last = HTTP_400_BAD_REQUEST
    /\ records = <<>>
    /\ collector.total_collections = 0
    /\ \E r \in RouteIds :
        /\ routes[r].actual_start
        /\ \E s \in StopIds : stops[s].route = r /\ stops[s].status = "skipped"
        /\ \E s \in StopIds : stops[s].route = r /\ stops[s].status = "failed"
        /\ \E s \in StopIds : stops[s].route = r /\ stops[s].status = "completed"

\* C12: after complete_stop succeeds on a stop, exactly one collection record
\* references that stop and its status is 'completed'.
C12_OneRecordPerCompletedStop ==
    [][\A s \in StopIds :
        (complete_stop(s) /\ last' = HTTP_201_CREATED)
        => LET refs == {k \in DOMAIN records' : records'[k].route_stop = s}
           IN /\ Cardinality(refs) = 1
              /\ \A k \in refs : records'[k].status = "completed"]_vars

\* C13: completing a scheduled request that has a collector, d metres from the
\* request: d <= 100 is accepted as 'completed', 100 < d <= 300 is accepted
\* as 'suspected', d > 300 is rejected.
C13_ScheduledGpsThresholds ==
    [][\A q \in DOMAIN scheduled, pos \in Positions :
        (sr_complete(q, pos) /\ scheduled[q].collector # 0)
        => LET d == Abs(scheduled[q].location - pos) IN
           /\ d <= 100 => (last' = HTTP_200_OK /\ scheduled'[q].request_status = "completed")
           /\ (d > 100 /\ d <= 300)
                => (last' = HTTP_200_OK /\ scheduled'[q].request_status = "suspected")
           /\ d > 300 => (last' = HTTP_400_BAD_REQUEST
                          /\ scheduled'[q].request_status = scheduled[q].request_status)]_vars

\* C14: completing an in_progress on-demand request with the collector more
\* than 100 m and at most 300 m away leaves the request 'suspected'.
C14_OnDemandSuspected ==
    [][\A q \in DOMAIN ondemand, pos \in Positions, value \in OdCompleteBody :
        (/\ od_complete(q, pos, value)
         /\ ondemand[q].collector # 0
         /\ ondemand[q].request_status = "in_progress"
         /\ Abs(ondemand[q].location - pos) > 100
         /\ Abs(ondemand[q].location - pos) <= 300)
        => ondemand'[q].request_status = "suspected"]_vars

\* C15: a rejected completion of an on-demand or scheduled request changes no
\* row: the request and the collector's stored position are as before.
C15_RejectedCompletionWritesNothing ==
    [][((\E q \in DOMAIN ondemand, pos \in Positions, value \in OdCompleteBody : od_complete(q, pos, value))
        \/ (\E q \in DOMAIN scheduled, pos \in Positions : sr_complete(q, pos)))
       /\ last' = HTTP_400_BAD_REQUEST
       => (ondemand' = ondemand /\ scheduled' = scheduled /\ collector' = collector)]_vars

\* C16: a createRoute that fails leaves no Route and no RouteStop of its own.
C16_FailedCreateLeavesNothing ==
    [][\A p \in Procs :
        (pc[p] = "validated" /\ pc'[p] = "idle" /\ last' # HTTP_201_CREATED)
        => (routes' = routes /\ stops' = stops)]_vars

\* C17: every persisted stop's coordinate lies inside its route's zone.
C17_StopsInsideZone ==
    \A s \in StopIds : stops[s].loc >= 0 /\ stops[s].loc <= 2

\* C18: createRoute without explicit stops fails and writes nothing when no
\* client lies inside the zone, and never leaves a route with zero stops.
C18_NoStoplessRoute ==
    [][\A p \in Procs :
        (pc[p] = "validated" /\ pc'[p] = "idle")
        => /\ (~ \E c \in DOMAIN clients : clients[c].location >= 0 /\ clients[c].location <= 2)
                => (last' # HTTP_201_CREATED /\ routes' = routes)
           /\ Len(routes') > Len(routes) => NumStops(stops', Len(routes')) > 0]_vars

\* C19: generating the stops of a route without stops gives one stop per
\* client inside the zone, numbered 1..N, never nearer the centroid than the
\* stop numbered before it.
AutoStops(S, r) == {i \in DOMAIN S : S[i].route = r}
InZone(c) == clients[c].location >= 0 /\ clients[c].location <= 2

C20_MinutesByOwnCategory ==
    [][\A r \in RouteIds :
        (auto_generate_stops(r) /\ NumStops(stops, r) = 0)
        => \A i \in AutoStops(stops', r) :
            LET ptype == clients[stops'[i].client].property_type IN
            stops'[i].expected_minutes =
                (IF ptype = "residential" THEN 5 ELSE IF ptype = "commercial" THEN 10 ELSE 7)]_vars

\* C21: a route with fewer than 2 stops has total distance 0 and an estimated
\* duration equal to the sum of its stops' expected minutes.
SumMinutes(S, r) ==
    LET T == {i \in DOMAIN S : S[i].route = r}
    IN SumOver([i \in T |-> S[i].expected_minutes], T)

C21_FewStopsMetrics ==
    \A r \in RouteIds :
        NumStops(stops, r) < 2
        => /\ routes[r].total_distance_km = 0
           /\ routes[r].estimated_duration = SumMinutes(stops, r)

\* C22: recomputing a route's metrics twice over unchanged stops gives the
\* same distance and duration both times, and they are the stored ones.
C22_RecomputeIdempotent ==
    \A r \in RouteIds :
        LET once == update_distance_and_duration(routes[r], r, stops)
            twice == update_distance_and_duration(once, r, stops)
        IN /\ twice.total_distance_km = once.total_distance_km
           /\ twice.estimated_duration = once.estimated_duration
           /\ once.total_distance_km = routes[r].total_distance_km
           /\ once.estimated_duration = routes[r].estimated_duration

\* a cancelled route of three stops: its row was saved again after the stops
\* were written, and still carries 4 km and 6 + 15 minutes
C22_Witness ==
    \E r \in RouteIds :
        /\ routes[r].status = "cancelled"
        /\ NumStops(stops, r) = 3
        /\ routes[r].total_distance_km = 4
        /\ routes[r].estimated_duration = 21

\* C23: for a route with two or more stops, estimated_duration is
\* (km between consecutive stops) / 40 * 60 plus the stops' expected minutes.
ConsecutiveKm(S, r) ==
    LET T == {i \in DOMAIN S : S[i].route = r}
        P == {pr \in T \X T :
                /\ S[pr[1]].order < S[pr[2]].order
                /\ ~ \E k \in T : S[pr[1]].order < S[k].order /\ S[k].order < S[pr[2]].order}
    IN SumOver([pr \in P |-> Abs(S[pr[1]].loc - S[pr[2]].loc)], P)

C25_TransitionsStamped ==
    [][/\ \A r \in RouteIds : start_route(r) =>
            \A s \in StopIds :
                (stops[s].route = r /\ stops[s].status = "pending" /\ stops'[s].status = "in_progress")
                => stops'[s].actual_start
       /\ \A s \in StopIds :
            (complete_stop(s) /\ stops'[s].status = "completed" /\ stops[s].status # "completed")
            => stops'[s].actual_end]_vars

\* C28: an on-demand request whose status is 'completed' keeps that status
\* through every later call.
C28_OnDemandCompletedSticky ==
    [][\A q \in DOMAIN ondemand :
        ondemand[q].request_status = "completed" => ondemand'[q].request_status = "completed"]_vars

\* C29: the incentive of a route is credited at most once: auto_close on a
\* route that was closed before adds nothing to the collector's balance.
C29_IncentiveCreditedOnce ==
    [][\A r \in RouteIds :
        (auto_close_upto(r, MaxCredit) /\ routes[r].actual_end)
        => collector'.incentive_balance = collector.incentive_balance]_vars

\* C24: a reader never sees a stop stored as completed while the route's
\* stored completion_percent is still the one of the count before it.
C24_ReaderSeesConsistentPercent ==
    \A s \in StopIds :
        stops[s].status = "completed"
        => routes[stops[s].route].completion_percent =
               (100 * NumCompleted(stops, stops[s].route)) \div NumStops(stops, stops[s].route)

\* C30: once no complete_stop is in flight, every completed stop has given
\* exactly one collection record and exactly one increment of
\* total_collections, whether the calls were for one stop or for two.
C30_ConcurrentCompleteStop ==
    (\A p \in Procs : pc[p] = "idle")
    => /\ Len(records) = Cardinality({s \in StopIds : stops[s].status = "completed"})
       /\ collector.total_collections = Cardinality({s \in StopIds : stops[s].status = "completed"})

\* C26: a collection record that is 'collected' is never afterwards changed
\* to 'pending', 'missed' or 'skipped'.
C26_CollectedIsFrozen ==
    [][\A k \in RecordIds :
        records[k].status = "collected"
        => records'[k].status \notin {"pending", "missed", "skipped"}]_vars

\* C27: when the status of a record linked to a stop changes, the stop becomes
\* 'completed' for collected, 'skipped' for missed or skipped, 'failed' for
\* rejected; a stop's status is always one of the five stop statuses.
C27_RecordSyncsStop ==
    [][/\ \A k \in RecordIds :
            (records[k].route_stop # 0 /\ records'[k].status # records[k].status)
            => LET st == stops'[records[k].route_stop].status IN
               /\ records'[k].status = "collected" => st = "completed"
               /\ records'[k].status \in {"missed", "skipped"} => st = "skipped"
               /\ records'[k].status = "rejected" => st = "failed"
       /\ \A s \in DOMAIN stops' :
            stops'[s].status \in {"pending", "in_progress", "completed", "skipped", "failed"}]_vars

====
